---- MODULE Spec2Model ----
(***************************************************************************)
(* Model of retail_analysis_script.py: the join of the three input tables, *)
(* the RFM table, the quintile scores (pd.qcut), the K-means cluster       *)
(* labels, the rule-based segment names and the four output files.         *)
(*                                                                         *)
(* Tables are sequences of rows (records); dates are day numbers and       *)
(* amounts are integers (cents).  Quantile edges are computed exactly, as  *)
(* NumBins times the edge, so that no fraction is needed.  Columns that no *)
(* step modelled here reads (join_date, customer_age, gender, location,    *)
(* quantity, product_category) are left out of the rows.                   *)
(***************************************************************************)
EXTENDS Integers, Sequences, FiniteSets, TLC

\* Longest column the scoring statements are applied to, and its largest value.
MaxLen == 7
MaxVal == 4

\* Most rows of transactions_df, and the latest transaction date (a day number).
MaxRows == 2
MaxDate == 2

\* Most rows of customers_df and of products_df.
MaxListed == 2

\* The number of quantile bins: the literal 5 of lines 110-112.
NumBins == 5

\* The label lists of lines 110-112.
r_labels == <<5, 4, 3, 2, 1>>
f_labels == <<1, 2, 3, 4, 5>>
m_labels == <<1, 2, 3, 4, 5>>

Range(s) == {s[i] : i \in DOMAIN s}

Count(s, v) == Len(SelectSeq(s, LAMBDA w : w = v))

(***************************************************************************)
(* pd.qcut(x, 5, labels)                                                   *)
(***************************************************************************)

\* x.sort_values(): the values of column x in ascending order.
SortValues(x) == SortSeq(x, LAMBDA a, b : a < b)

\* NumBins * quantile(i / NumBins) of the sorted column s: linear interpolation
\* between the two order statistics around position (i / NumBins) * (n - 1).
QuantileEdge(s, i) ==
    LET pos == i * (Len(s) - 1)
        lo  == pos \div NumBins
        fr  == pos % NumBins
    IN  IF fr = 0 THEN NumBins * s[lo + 1]
        ELSE NumBins * s[lo + 1] + fr * (s[lo + 2] - s[lo + 1])

\* The bin edges of qcut, as a function on 0..NumBins; the quantiles of an empty
\* column are NaN (here: no edges).
QuantileEdges(x) ==
    IF Len(x) = 0 THEN <<>>
    ELSE LET s == SortValues(x)
         IN  [i \in 0..NumBins |-> QuantileEdge(s, i)]

\* _bins_to_cuts raises "Bin edges must be unique" (duplicates='raise') unless
\* the edges are pairwise different; NaN edges are not.
EdgesUnique(edges) ==
    /\ edges # <<>>
    /\ \A i \in 1..NumBins : edges[i - 1] < edges[i]

\* bins.searchsorted(v, side='left'), with include_lowest: the bin (1-based)
\* whose interval (edge[i-1], edge[i]] holds v; the lowest edge goes to bin 1.
BinOf(edges, v) ==
    IF NumBins * v = edges[0] THEN 1
    ELSE CHOOSE i \in 1..NumBins :
            /\ edges[i - 1] < NumBins * v
            /\ NumBins * v <= edges[i]

\* The result of a library call: the exception it raised, or its values.
Raise(e) == [raised |-> e, values |-> <<>>]
Return(v) == [raised |-> "none", values |-> v]

qcut(x, labels) ==
    LET edges == QuantileEdges(x)
    IN  IF ~EdgesUnique(edges) THEN Raise("ValueError")
        ELSE Return([j \in 1..Len(x) |-> labels[BinOf(edges, x[j])]])

\* Mutant of rank_first: method='min', where tied values share the lowest rank.
rank_min(x) ==
    [j \in 1..Len(x) |-> 1 + Len(SelectSeq(x, LAMBDA v : v < x[j]))]

\* Series.rank(method='first'): ranks 1..n, ties in order of appearance.
rank_first(x) ==
    [j \in 1..Len(x) |->
        1 + Len(SelectSeq(x, LAMBDA v : v < x[j]))
          + Len(SelectSeq(SubSeq(x, 1, j - 1), LAMBDA v : v = x[j]))]

\* Mutant of r_score: the labels in ascending order, as for the other two.
r_score_ascending(recency) == qcut(recency, f_labels)

\* Mutant of f_score: the frequencies binned as they are, without the ranks.
f_score_unranked(frequency) == qcut(frequency, f_labels)

\* Lines 110, 111, 112 as functions of the column they read.
r_score(recency) == qcut(recency, r_labels)
f_score(frequency) == qcut(rank_first(frequency), f_labels)
m_score(monetary) == qcut(monetary, m_labels)

(***************************************************************************)
(* assign_segment_name                                                     *)
(***************************************************************************)
\* Mutant of assign_segment_name: the second rule tried before the first.
assign_segment_name_reordered(row) ==
    IF row.r_score >= 3 /\ row.f_score >= 3 THEN "Loyal Customers"
    ELSE IF row.r_score >= 4 /\ row.f_score >= 4 /\ row.m_score >= 4 THEN "Champions"
    ELSE IF row.r_score >= 4 /\ row.f_score <= 2 THEN "Potential Loyalists"
    ELSE IF row.r_score <= 2 THEN "At Risk"
    ELSE "Others"

assign_segment_name(row) ==
    IF row.r_score >= 4 /\ row.f_score >= 4 /\ row.m_score >= 4 THEN "Champions"
    ELSE IF row.r_score >= 3 /\ row.f_score >= 3 THEN "Loyal Customers"
    ELSE IF row.r_score >= 4 /\ row.f_score <= 2 THEN "Potential Loyalists"
    ELSE IF row.r_score <= 2 THEN "At Risk"
    ELSE "Others"

(***************************************************************************)
(* Tables: merge, groupby                                                  *)
(***************************************************************************)

\* The value of column col in every row of table df.
Column(df, col) == [i \in 1..Len(df) |-> df[i][col]]

\* left.merge(right, on=key): the inner join.  Every left row, in order, is
\* paired with every right row of the same key; a left row without a match is
\* dropped.
RECURSIVE merge(_, _, _)
merge(left, right, on) ==
    IF left = <<>> THEN <<>>
    ELSE LET l == Head(left)
             matches == SelectSeq(right, LAMBDA r : r[on] = l[on])
         IN  [j \in 1..Len(matches) |-> l @@ matches[j]]
                 \o merge(Tail(left), right, on)

\* Series.max() and Series.sum() of a non-empty column.
Max(x) == CHOOSE v \in Range(x) : \A w \in Range(x) : w <= v

RECURSIVE Sum(_)
Sum(x) == IF x = <<>> THEN 0 ELSE Head(x) + Sum(Tail(x))

\* The group keys of groupby(key), sorted ascending (sort=True is the default).
GroupKeys(df, key) ==
    LET keys == Range(Column(df, key))
    IN  [i \in 1..Cardinality(keys) |->
            CHOOSE k \in keys : Cardinality({w \in keys : w < k}) = i - 1]

\* pd.NaT: the max of an empty date column (dates are day numbers >= 1).
NaT == 0

\* NaN: what read_csv delivers for an empty cell (transaction ids are >= 1).
NaN == 0

\* Mutant of snapshot: the earliest transaction date instead of the latest.
snapshot_earliest(sales) ==
    IF sales = <<>> THEN NaT
    ELSE LET dates == Range(Column(sales, "transaction_date"))
         IN  (CHOOSE d \in dates : \A e \in dates : d <= e) + 1

\* Line 92.
snapshot(sales) ==
    IF sales = <<>> THEN NaT ELSE Max(Column(sales, "transaction_date")) + 1

\* Mutant of rfm_aggregate: no grouping, one row per joined sales row.
rfm_aggregate_ungrouped(sales, snap) ==
    [i \in 1..Len(sales) |->
        [customer_id |-> sales[i].customer_id,
         recency     |-> snap - sales[i].transaction_date,
         frequency   |-> 1,
         monetary    |-> sales[i].total_amount]]

\* Mutant of rfm_aggregate: frequency as 'nunique', the number of different
\* transaction ids of the group, instead of 'count'.
rfm_aggregate_nunique(sales, snap) ==
    LET keys == GroupKeys(sales, "customer_id")
    IN  [i \in 1..Len(keys) |->
            LET g == SelectSeq(sales, LAMBDA r : r.customer_id = keys[i])
            IN  [customer_id |-> keys[i],
                 recency     |-> snap - Max(Column(g, "transaction_date")),
                 frequency   |->
                     Cardinality(Range(Column(g, "transaction_id")) \ {NaN}),
                 monetary    |-> Sum(Column(g, "total_amount"))]]

\* Lines 94-100: one row per group key, with the three aggregates.  'count'
\* counts the rows of the group whose transaction_id is not NaN.
rfm_aggregate(sales, snap) ==
    LET keys == GroupKeys(sales, "customer_id")
    IN  [i \in 1..Len(keys) |->
            LET g == SelectSeq(sales, LAMBDA r : r.customer_id = keys[i])
            IN  [customer_id |-> keys[i],
                 recency     |-> snap - Max(Column(g, "transaction_date")),
                 frequency   |->
                     Len(SelectSeq(g, LAMBDA r : r.transaction_id # NaN)),
                 monetary    |-> Sum(Column(g, "total_amount"))]]

(***************************************************************************)
(* KMeans(n_clusters=optimal_k).fit_predict                                *)
(***************************************************************************)
optimal_k == 4

\* Mutants of fit_predict_raises: the check off by one, and no check at all.
fit_predict_raises_off_by_one(n_samples) == n_samples < optimal_k - 1
fit_predict_never_raises(n_samples) == n_samples < 0

\* _check_params_vs_input: n_samples < n_clusters raises ValueError.
fit_predict_raises(n_samples) == n_samples < optimal_k

\* The label vectors fit_predict can return for n_samples rows: one label of
\* 0..optimal_k-1 per row.  Which vector comes out is a numerical matter (the
\* seeded initialisation and Lloyd's iterations); any of them is allowed here.
fit_predict_labels(n_samples) == [1..n_samples -> 0..(optimal_k - 1)]

\* f_oneway raises TypeError for fewer than two groups.
f_oneway_raises(groups) == Cardinality(groups) < 2

\* The four files of lines 216-225.
OutputFiles == {"customer_segments.csv", "segment_profiles.csv",
                "monthly_sales_trends.csv", "category_performance.csv"}

(***************************************************************************)
(* State                                                                   *)
(***************************************************************************)
VARIABLES
    pc,               \* the statement the script is at
    customers_df,     \* rows [customer_id]
    products_df,      \* rows [product_id]
    transactions_df,  \* rows [transaction_id, customer_id, product_id,
                      \*       transaction_date, total_amount]
    sales_data,       \* the joined rows
    snapshot_date,
    rfm,              \* the RFM rows; later statements add columns
    error,            \* the exception that ended the run, or "none"
    files,            \* the output files written so far
    fn, arg, res      \* a function applied on its own: its name, input, result

script_vars == <<pc, customers_df, products_df, transactions_df, sales_data,
                 snapshot_date, rfm, error, files>>
call_vars == <<fn, arg, res>>
vars == <<script_vars, call_vars>>

NoTables ==
    /\ customers_df = <<>>
    /\ products_df = <<>>
    /\ transactions_df = <<>>
    /\ sales_data = <<>>
    /\ snapshot_date = NaT

NoCall ==
    /\ fn = "none"
    /\ arg = <<>>
    /\ res = Return(<<>>)

(***************************************************************************)
(* Lines 23-103: from the three input tables to the RFM table              *)
(***************************************************************************)
CustomerIds == {1, 2}
ProductIds == {1, 2}
ListedProductIds == {1}
Amounts == {10}
Dates == 1..MaxDate

\* What read_csv can deliver: nothing validates the files, so a customer or a
\* product may be listed twice or not at all, and a transaction may come
\* without its transaction_id.
Init ==
    /\ pc = "merge"
    /\ \E n \in 0..MaxListed : \E c \in [1..n -> CustomerIds] :
          customers_df = [i \in 1..n |-> [customer_id |-> c[i]]]
    /\ \E n \in 0..MaxListed : \E p \in [1..n -> ListedProductIds] :
          products_df = [i \in 1..n |-> [product_id |-> p[i]]]
    /\ \E n \in 0..MaxRows :
          \E c \in [1..n -> CustomerIds], p \in [1..n -> ProductIds],
             d \in [1..n -> Dates], a \in [1..n -> Amounts],
             noid \in SUBSET (1..n) :
             transactions_df =
                 [i \in 1..n |-> [transaction_id   |-> IF i \in noid THEN NaN ELSE i,
                                  customer_id      |-> c[i],
                                  product_id       |-> p[i],
                                  transaction_date |-> d[i],
                                  total_amount     |-> a[i]]]
    /\ sales_data = <<>>
    /\ snapshot_date = NaT
    /\ rfm = <<>>
    /\ error = "none"
    /\ files = {}
    /\ NoCall

\* Line 39.
MergeSales ==
    /\ pc = "merge"
    /\ sales_data' = merge(merge(transactions_df, customers_df, "customer_id"),
                           products_df, "product_id")
    /\ pc' = "snapshot"
    /\ UNCHANGED <<customers_df, products_df, transactions_df, snapshot_date,
                   rfm, error, files, call_vars>>

\* Line 92.
ComputeSnapshot ==
    /\ pc = "snapshot"
    /\ snapshot_date' = snapshot(sales_data)
    /\ pc' = "groupby"
    /\ UNCHANGED <<customers_df, products_df, transactions_df, sales_data,
                   rfm, error, files, call_vars>>

\* Lines 94-100.
GroupByCustomer ==
    /\ pc = "groupby"
    /\ rfm' = rfm_aggregate(sales_data, snapshot_date)
    /\ pc' = "merge_info"
    /\ UNCHANGED <<customers_df, products_df, transactions_df, sales_data,
                   snapshot_date, error, files, call_vars>>

\* Line 103.
MergeCustomerInfo ==
    /\ pc = "merge_info"
    /\ rfm' = merge(rfm, customers_df, "customer_id")
    /\ pc' = "score_r"
    /\ UNCHANGED <<customers_df, products_df, transactions_df, sales_data,
                   snapshot_date, error, files, call_vars>>

Next == MergeSales \/ ComputeSnapshot \/ GroupByCustomer \/ MergeCustomerInfo

Spec == Init /\ [][Next]_vars

(***************************************************************************)
(* Lines 110-225: from the RFM table to the output files                   *)
(***************************************************************************)
Populations == 0..optimal_k
Recencies == 1..optimal_k
Frequencies == {1, 2}
Monetaries == 1..optimal_k

\* RFM tables lines 94-103 can build for up to optimal_k customers with unique
\* identifiers: one row per customer, sorted by customer_id; a recency is at
\* least 1 and the most recent customer's is exactly 1; a frequency is at least
\* 1.  The customers are numbered from the most recent buyer to the least
\* recent one; frequencies and spends come in every order.
InitPipeline ==
    /\ pc = "score_r"
    /\ \E n \in Populations :
          \E r \in [1..n -> Recencies] :
             /\ n > 0 => r[1] = 1
             /\ \A i \in 1..(n - 1) : r[i] <= r[i + 1]
             /\ \E f \in [1..n -> Frequencies], m \in [1..n -> Monetaries] :
                   rfm = [i \in 1..n |-> [customer_id |-> i,
                                          recency     |-> r[i],
                                          frequency   |-> f[i],
                                          monetary    |-> m[i]]]
    /\ error = "none"
    /\ files = {}
    /\ NoTables
    /\ NoCall

\* rfm[col] = values: every row gets the column's value.
WithColumn(df, col, values) == [i \in 1..Len(df) |-> df[i] @@ (col :> values[i])]

\* The exceptions that end a run.
QcutError == "qcut: Bin edges must be unique"
KMeansError == "kmeans: n_samples should be >= n_clusters"
FOnewayError == "f_oneway: at least two inputs are required"

Fail(e) ==
    /\ pc' = "failed"
    /\ error' = e
    /\ UNCHANGED <<rfm, files>>

\* Line 110.
ScoreR ==
    /\ pc = "score_r"
    /\ LET s == r_score(Column(rfm, "recency"))
       IN  IF s.raised # "none" THEN Fail(QcutError)
           ELSE /\ rfm' = WithColumn(rfm, "r_score", s.values)
                /\ pc' = "score_f"
                /\ UNCHANGED <<error, files>>
    /\ UNCHANGED <<customers_df, products_df, transactions_df, sales_data,
                   snapshot_date, call_vars>>

\* Line 111.
ScoreF ==
    /\ pc = "score_f"
    /\ LET s == f_score(Column(rfm, "frequency"))
       IN  IF s.raised # "none" THEN Fail(QcutError)
           ELSE /\ rfm' = WithColumn(rfm, "f_score", s.values)
                /\ pc' = "score_m"
                /\ UNCHANGED <<error, files>>
    /\ UNCHANGED <<customers_df, products_df, transactions_df, sales_data,
                   snapshot_date, call_vars>>

\* Lines 112-115: m_score, then rfm_score, the three scores side by side.
ScoreM ==
    /\ pc = "score_m"
    /\ LET s == m_score(Column(rfm, "monetary"))
       IN  IF s.raised # "none" THEN Fail(QcutError)
           ELSE /\ rfm' = LET scored == WithColumn(rfm, "m_score", s.values)
                          IN  WithColumn(scored, "rfm_score",
                                  [i \in 1..Len(scored) |->
                                      <<scored[i].r_score, scored[i].f_score,
                                        scored[i].m_score>>])
                /\ pc' = "cluster"
                /\ UNCHANGED <<error, files>>
    /\ UNCHANGED <<customers_df, products_df, transactions_df, sales_data,
                   snapshot_date, call_vars>>

\* Lines 121-131.
Cluster ==
    /\ pc = "cluster"
    /\ \/ /\ fit_predict_raises(Len(rfm))
          /\ Fail(KMeansError)
       \/ /\ ~fit_predict_raises(Len(rfm))
          /\ \E labels \in fit_predict_labels(Len(rfm)) :
                rfm' = WithColumn(rfm, "cluster", labels)
          /\ pc' = "segment"
          /\ UNCHANGED <<error, files>>
    /\ UNCHANGED <<customers_df, products_df, transactions_df, sales_data,
                   snapshot_date, call_vars>>

\* Lines 134-146.
AssignSegments ==
    /\ pc = "segment"
    /\ rfm' = WithColumn(rfm, "segment_name",
                         [i \in 1..Len(rfm) |-> assign_segment_name(rfm[i])])
    /\ pc' = "report"
    /\ UNCHANGED <<customers_df, products_df, transactions_df, sales_data,
                   snapshot_date, error, files, call_vars>>

\* Lines 149-225: the profile, the ANOVA over the segments' spending (one group
\* per segment name), the printed metrics, and the four files.  Nothing is
\* written unless every statement before line 216 returned.
ReportAndSave ==
    /\ pc = "report"
    /\ IF f_oneway_raises(Range(Column(rfm, "segment_name")))
       THEN Fail(FOnewayError)
       ELSE /\ files' = OutputFiles
            /\ pc' = "done"
            /\ UNCHANGED <<rfm, error>>
    /\ UNCHANGED <<customers_df, products_df, transactions_df, sales_data,
                   snapshot_date, call_vars>>

NextPipeline ==
    ScoreR \/ ScoreF \/ ScoreM \/ Cluster \/ AssignSegments \/ ReportAndSave

SpecPipeline == InitPipeline /\ [][NextPipeline]_vars

(***************************************************************************)
(* Lines 110-112 applied to one column                                     *)
(***************************************************************************)

\* The columns: every column of up to MaxLen values of 1..MaxVal (with ties and
\* gaps), and every column of up to MaxLen pairwise different values.
InitScoring ==
    /\ fn = "none"
    /\ \E n \in 0..MaxLen :
          \/ arg \in [1..n -> 1..MaxVal]
          \/ arg \in Permutations(1..n)
    /\ res = Return(<<>>)
    /\ pc = "idle"
    /\ rfm = <<>>
    /\ error = "none"
    /\ files = {}
    /\ NoTables

ApplyRScore ==
    /\ fn = "none"
    /\ fn' = "r_score"
    /\ res' = r_score(arg)
    /\ UNCHANGED <<arg, script_vars>>

ApplyFScore ==
    /\ fn = "none"
    /\ fn' = "f_score"
    /\ res' = f_score(arg)
    /\ UNCHANGED <<arg, script_vars>>

ApplyMScore ==
    /\ fn = "none"
    /\ fn' = "m_score"
    /\ res' = m_score(arg)
    /\ UNCHANGED <<arg, script_vars>>

NextScoring == ApplyRScore \/ ApplyFScore \/ ApplyMScore

SpecScoring == InitScoring /\ [][NextScoring]_vars

(***************************************************************************)
(* assign_segment_name applied to one row of scores                        *)
(***************************************************************************)
Scores == 1..NumBins

InitSegment ==
    /\ fn = "none"
    /\ arg \in [r_score : Scores, f_score : Scores, m_score : Scores]
    /\ res = Return(<<>>)
    /\ pc = "idle"
    /\ rfm = <<>>
    /\ error = "none"
    /\ files = {}
    /\ NoTables

ApplySegment ==
    /\ fn = "none"
    /\ fn' = "assign_segment_name"
    /\ res' = Return(assign_segment_name(arg))
    /\ UNCHANGED <<arg, script_vars>>

NextSegment == ApplySegment

SpecSegment == InitSegment /\ [][NextSegment]_vars

(***************************************************************************)
(* Properties of lines 23-103 (Spec)                                       *)
(***************************************************************************)
UniqueCustomerIds ==
    \A i, j \in DOMAIN customers_df :
        customers_df[i].customer_id = customers_df[j].customer_id => i = j

RowsOf(df, c) == Cardinality({i \in DOMAIN df : df[i].customer_id = c})

\* C1: when customers_df lists no customer twice, the RFM table of line 103
\* holds exactly one row for every customer_id of the joined sales data and no
\* row for any other customer.
C1_OneRowPerCustomer ==
    (pc = "score_r" /\ UniqueCustomerIds) =>
        \A c \in CustomerIds :
            RowsOf(rfm, c) = IF RowsOf(sales_data, c) > 0 THEN 1 ELSE 0

\* Unique customers, two of them in the joined data, one of them with a
\* transaction joined more than once.
C1_Witness ==
    /\ pc = "score_r"
    /\ UniqueCustomerIds
    /\ Len(rfm) = 2
    /\ Len(sales_data) > 2

\* Every transaction of the input comes with its transaction_id.
HasTransactionIds ==
    \A i \in DOMAIN transactions_df : transactions_df[i].transaction_id # NaN

C10_RecencyNonNegative ==
    /\ (pc \in {"groupby", "merge_info", "score_r"} /\ sales_data # <<>>) =>
            /\ \A i \in DOMAIN sales_data :
                   sales_data[i].transaction_date < snapshot_date
            /\ \E i \in DOMAIN sales_data :
                   sales_data[i].transaction_date + 1 = snapshot_date
    /\ pc \in {"merge_info", "score_r"} =>
            \A i \in DOMAIN rfm : rfm[i].recency >= 0

\* Two customers whose last purchases are on different days.
C10_Witness ==
    /\ pc = "score_r"
    /\ Len(rfm) = 2
    /\ rfm[1].recency # rfm[2].recency

\* The RFM tables of unique customers are those InitPipeline starts from: sorted
\* by customer_id, recency at least 1 and 1 for some customer, frequency at
\* least 1.
RFMTableShape ==
    (pc = "score_r" /\ UniqueCustomerIds) =>
        /\ \A i, j \in DOMAIN rfm : i < j => rfm[i].customer_id < rfm[j].customer_id
        /\ \A i \in DOMAIN rfm : rfm[i].recency >= 1 /\ rfm[i].frequency >= 1
        /\ rfm # <<>> => \E i \in DOMAIN rfm : rfm[i].recency = 1

(***************************************************************************)
(* Properties of assign_segment_name (SpecSegment)                         *)
(***************************************************************************)
SegmentNames ==
    {"Champions", "Loyal Customers", "Potential Loyalists", "At Risk", "Others"}

\* C2: assign_segment_name gives every row of scores in 1..5 the label of the
\* first rule that matches, in the order Champions, Loyal Customers, Potential
\* Loyalists, At Risk, Others; (5,5,5) is Champions, (1,1,1) At Risk and
\* (3,3,1) Loyal Customers.
C2_SegmentCascade ==
    fn = "assign_segment_name" =>
        LET r == arg.r_score
            f == arg.f_score
            m == arg.m_score
            s == res.values
            rule1 == r >= 4 /\ f >= 4 /\ m >= 4
            rule2 == r >= 3 /\ f >= 3
            rule3 == r >= 4 /\ f <= 2
            rule4 == r <= 2
        IN  /\ res.raised = "none"
            /\ s \in SegmentNames
            /\ s = "Champions" <=> rule1
            /\ s = "Loyal Customers" <=> (~rule1 /\ rule2)
            /\ s = "Potential Loyalists" <=> (~rule1 /\ ~rule2 /\ rule3)
            /\ s = "At Risk" <=> (~rule1 /\ ~rule2 /\ ~rule3 /\ rule4)
            /\ s = "Others" <=> (~rule1 /\ ~rule2 /\ ~rule3 /\ ~rule4)
            /\ (r = 5 /\ f = 5 /\ m = 5) => s = "Champions"
            /\ (r = 1 /\ f = 1 /\ m = 1) => s = "At Risk"
            /\ (r = 3 /\ f = 3 /\ m = 1) => s = "Loyal Customers"

\* The row (3,3,1), which only the second rule matches.
C2_Witness ==
    /\ fn = "assign_segment_name"
    /\ arg = [r_score |-> 3, f_score |-> 3, m_score |-> 1]
    /\ res.values = "Loyal Customers"

(***************************************************************************)
(* Properties of lines 110-112 (SpecScoring)                               *)
(***************************************************************************)
Applied == fn \in {"r_score", "f_score", "m_score"}
Completed == Applied /\ res.raised = "none"

Abs(a) == IF a < 0 THEN -a ELSE a

\* Every score's count is within 1 of a fifth of the population.
Balanced(scores) ==
    \A s \in 1..NumBins : Abs(NumBins * Count(scores, s) - Len(scores)) <= NumBins

Distinct(x) == Cardinality(Range(x)) = Len(x)

C4_FailsOnTooFewValues ==
    (fn \in {"r_score", "m_score"} /\ Cardinality(Range(arg)) < NumBins) =>
        res.raised = "ValueError"

Min(x) == CHOOSE v \in Range(x) : \A w \in Range(x) : v <= w

\* Score sequence b never falls (Rises) or never rises (Falls) with column x.
Rises(x, b) == \A i, j \in DOMAIN x : x[i] < x[j] => b[i] <= b[j]
Falls(x, b) == \A i, j \in DOMAIN x : x[i] < x[j] => b[i] >= b[j]

\* Every row of the lowest value of x has score s.
LowestScore(x, b, s) ==
    x # <<>> => LET lo == Min(x) IN \A j \in DOMAIN x : x[j] = lo => b[j] = s

\* The first row of the lowest value of x has score s.
FirstLowestScore(x, b, s) ==
    x # <<>> =>
        LET lo == Min(x)
            first == CHOOSE j \in DOMAIN x :
                        x[j] = lo /\ \A k \in 1..(j - 1) : x[k] # lo
        IN  b[first] = s

\* C7 as stated: r_score never rises with recency and is 5 for the lowest
\* recency; f_score and m_score never fall with the value and are 1 for every
\* customer of the lowest value.
C7_LowestValueScoresOne ==
    Completed =>
        /\ fn = "r_score" =>
               Falls(arg, res.values) /\ LowestScore(arg, res.values, 5)
        /\ fn # "r_score" =>
               Rises(arg, res.values) /\ LowestScore(arg, res.values, 1)

\* C7 amended: as stated for r_score and m_score; f_score never falls with the
\* frequency, and of the customers of the lowest frequency the first one in the
\* table has f_score 1.
C7_ScoreDirection ==
    Completed =>
        /\ fn = "r_score" =>
               Falls(arg, res.values) /\ LowestScore(arg, res.values, 5)
        /\ fn = "m_score" =>
               Rises(arg, res.values) /\ LowestScore(arg, res.values, 1)
        /\ fn = "f_score" =>
               Rises(arg, res.values) /\ FirstLowestScore(arg, res.values, 1)

\* f_score completed and gave a customer of the lowest frequency more than 1.
C7_Witness ==
    /\ fn = "f_score"
    /\ res.raised = "none"
    /\ \E a \in DOMAIN arg : arg[a] = Min(arg) /\ res.values[a] > 1

\* C8: for 5 customers or more, whatever their frequencies and however many of
\* them are tied, f_score raises nothing, gives each of 1..5 to some customer,
\* and among customers of the same frequency never gives an earlier one more
\* than a later one.
C8_FiveFrequencyBins ==
    (fn = "f_score" /\ Len(arg) >= NumBins) =>
        /\ res.raised = "none"
        /\ \A s \in 1..NumBins : \E j \in DOMAIN arg : res.values[j] = s
        /\ \A a, b \in DOMAIN arg :
               (a < b /\ arg[a] = arg[b]) => res.values[a] <= res.values[b]

\* f_score applied to a full-length column whose frequencies are all the same.
C8_Witness ==
    /\ fn = "f_score"
    /\ Len(arg) = MaxLen
    /\ \A a, b \in DOMAIN arg : arg[a] = arg[b]
    /\ res.raised = "none"

(***************************************************************************)
(* Properties of lines 110-225 (SpecPipeline)                              *)
(***************************************************************************)
Scored == rfm # <<>> /\ "rfm_score" \in DOMAIN rfm[1]

\* C5: with fewer than optimal_k customers the run never gets past line 131: it
\* fails there (or already in the scoring), the failed run takes no further
\* step and has written no file; a run that gets past line 131 has optimal_k
\* customers or more, each with one cluster label of 0..optimal_k-1.
C5_ClusteringNeedsKCustomers ==
    /\ Len(rfm) < optimal_k =>
            /\ pc \in {"score_r", "score_f", "score_m", "cluster", "failed"}
            /\ pc = "failed" => error \in {QcutError, KMeansError}
            /\ (Scored /\ pc # "cluster") => (pc = "failed" /\ error = KMeansError)
    /\ pc = "failed" => (files = {} /\ ~ENABLED NextPipeline)
    /\ pc # "done" => files = {}
    /\ pc \in {"segment", "report", "done"} =>
            /\ Len(rfm) >= optimal_k
            /\ \A i \in DOMAIN rfm : rfm[i].cluster \in 0..(optimal_k - 1)

\* Three scored customers, and the run failed in fit_predict.
C5_Witness ==
    /\ Len(rfm) = 3
    /\ Scored
    /\ pc = "failed"
    /\ error = KMeansError
    /\ files = {}

\* Three customers with different histories: no two bought last on the same
\* day or spent the same; a bought more recently, more often (more than once)
\* and for more than b, and c bought once.
ThreeCustomers ==
    /\ Len(rfm) = 3
    /\ \A i, j \in DOMAIN rfm :
          i # j => /\ rfm[i].recency # rfm[j].recency
                   /\ rfm[i].monetary # rfm[j].monetary
    /\ \E a, b, c \in DOMAIN rfm :
          /\ a # b /\ b # c /\ a # c
          /\ rfm[a].recency < rfm[b].recency
          /\ rfm[a].monetary > rfm[b].monetary
          /\ rfm[a].frequency > 1
          /\ rfm[a].frequency > rfm[b].frequency
          /\ rfm[c].frequency = 1

\* C6 as stated: with these three customers the run does not fail, and once it
\* is done every customer has a segment and customer_segments.csv has 3 rows.
C6_ThreeCustomersComplete ==
    ThreeCustomers =>
        /\ pc # "failed"
        /\ pc = "done" =>
              /\ "customer_segments.csv" \in files
              /\ \A i \in DOMAIN rfm : rfm[i].segment_name \in SegmentNames

\* C6 amended: with these three customers the run is never done: the scoring
\* completes, fit_predict raises, no customer gets a segment and no file is
\* written.
C6_ThreeCustomersFail ==
    ThreeCustomers =>
        /\ pc \in {"score_r", "score_f", "score_m", "cluster", "failed"}
        /\ pc = "failed" => (Scored /\ error = KMeansError)
        /\ files = {}
        /\ \A i \in DOMAIN rfm : "segment_name" \notin DOMAIN rfm[i]

\* The three customers, scored, and the run failed in fit_predict.
C6_Witness ==
    /\ ThreeCustomers
    /\ Scored
    /\ pc = "failed"
    /\ error = KMeansError

====
